---- MODULE Spec2Model ----
(***************************************************************************)
(* Virtual Epileptic Patient: the forward simulation engine.               *)
(*                                                                         *)
(* Two simulators live in the repository: vep.simulator.Simulator          *)
(* (variant "vep") and vep_core.simulation.forward.ForwardSimulator        *)
(* (variant "core").  Both drive an Epileptor model through a step-counted *)
(* loop over a ring buffer of delayed x1 values.                           *)
(*                                                                         *)
(* Numbers.  float64 values are modelled in fixed point: a state value v   *)
(* stands for v / Scale, a time (ms) for t / TimeScale, a tract length     *)
(* (mm) for l / TimeScale.  Products and quotients are truncated to the    *)
(* grid.  A non-finite float (NaN, Inf) is the single token NaN, which     *)
(* every arithmetic operator propagates and every comparison rejects.      *)
(* Gaussian draws (initial perturbation, process noise) are choices from   *)
(* small sets.                                                             *)
(***************************************************************************)
EXTENDS Integers, Sequences, FiniteSets, TLC

VARIABLES
    prog,          \* who drives the simulator: "api", "pipeline", "main_pipeline", "viewer"
    variant,       \* "vep" (Simulator) or "core" (ForwardSimulator)
    args,          \* the caller's arguments (duration, checkpoint paths, flags)
    velocity,      \* conduction velocity of the configuration
    x0_ez,         \* phys_cfg.x0_ez of the configuration
    x0_input,      \* ez_indices (vep, a set) or x0_parameters (core, a vector)
    sigma,         \* noise amplitude: phys_cfg.noise (vep), sig (core), in units of 1e-4
    lengths,       \* anatomy.distances / self.lengths
    delays,        \* self.delays
    buffer_size,   \* self.buffer_size
    x0,            \* model.x0 / model.param_x0
    pc,            \* position of the program
    n_steps,       \* run: n_steps / steps
    n_saved,       \* run: n_saved
    t,             \* run: loop index of the next iteration
    state,         \* run: state / current_state, [region -> 6 channels]
    history,       \* run: history / history_x1, slot k is history[k + 1]
    onset_times,   \* run: onset_times
    data,          \* run: data / saved_data rows written so far (0 = untouched)
    result,        \* what run returned: [time, data, onset_times], or NoResult
    kicks,         \* number of non-zero noise draws consumed so far
    trace,         \* history variable: trace[k + 1] is the x1 vector after k steps
    fs,            \* the file system: path -> file
    saved_path,    \* path given to the last save_checkpoint
    load_path,     \* path given to the last load
    loaded,        \* outcome of the last load
    err,           \* the exception that ended the program, or "none"
    rng,           \* the module-level generator behind np.random.normal
    peer,          \* a second Simulator instance of the same process
    probe,         \* test_physics.py: the inputs and outputs of the calls under test
    gui            \* app.py: the configuration window, its worker and its timers

vars == << prog, variant, args, velocity, x0_ez, x0_input, sigma, lengths, delays,
           buffer_size, x0, pc, n_steps, n_saved, t, state, history, onset_times, data,
           result, kicks, trace, fs, saved_path, load_path, loaded, err, rng, peer,
           probe, gui >>

-----------------------------------------------------------------------------
(* Bounds of the model *)

NRegions == 2
MaxSteps == 21
MaxKicks == 1
MaxRuns == 2
MaxEdits == 1

Regions == 1..NRegions

-----------------------------------------------------------------------------
(* Number representation *)

Scale == 1000
TimeScale == 100
NaN == 1000000000

TruncDiv(a, b) ==
    IF a >= 0
    THEN (IF b > 0 THEN a \div b ELSE -(a \div (-b)))
    ELSE (IF b > 0 THEN -((-a) \div b) ELSE (-a) \div (-b))

Add(a, b) == IF a = NaN \/ b = NaN THEN NaN ELSE a + b
Sub(a, b) == IF a = NaN \/ b = NaN THEN NaN ELSE a - b
Mul(a, b) == IF a = NaN \/ b = NaN THEN NaN ELSE TruncDiv(a * b, Scale)
\* k * a for a plain number k, a * n / d for a plain ratio n / d
Times(k, a) == IF a = NaN THEN NaN ELSE k * a
Ratio(a, n, d) == IF a = NaN THEN NaN ELSE TruncDiv(a * n, d)
Gt(a, b) == a # NaN /\ b # NaN /\ a > b

Max2(a, b) == IF a >= b THEN a ELSE b
SetMax(S) == CHOOSE m \in S : \A x \in S : x <= m
SetMin(S) == CHOOSE m \in S : \A x \in S : m <= x

-----------------------------------------------------------------------------
(* Configuration: vep/config.py and vep_core/config.py *)

DT == 5
Iext1 == 3100
Iext2 == 450
tau0 == 2857
RNum == 35
RDen == 100000
x0_healthy == -2200
X0_EZ_DEFAULT == -1600
CouplingVep == 100
GLOBAL_COUPLING == 50
CONDUCTION_VELOCITY == 3
Margin == 10
Sentinel == -100
ThresholdVep == -1000
ThresholdCore == -1200

\* sim_cfg.duration, the duration a vep run falls back to (4000 ms in
\* vep/config.py; a configuration value, here three steps long)
SimCfgDuration == 3 * DT

-----------------------------------------------------------------------------
(* Epileptor model: vep/epileptor.py and vep_core/models/epileptor.py *)

Sq(a) == Mul(a, a)
Cube(a) == Mul(Mul(a, a), a)
Pow4(a) == Mul(Mul(a, a), Mul(a, a))

\* x0 vector entry as the array expression (x1 - x0) sees it: a length-1
\* vector is broadcast over the regions
X0At(xv, i) == IF Len(xv) = 1 THEN xv[1] ELSE xv[i]

\* derivative of one region s = <<x1, y1, z, x2, y2, g>>
Derivative(s, c, xz, I1, I2, tau, rn, rd) ==
    << Add(Add(Sub(Add(Sub(s[2], Cube(s[1])), Times(3, Sq(s[1]))), s[3]), I1), c),
       Sub(Sub(Scale, Times(5, Sq(s[1]))), s[2]),
       Ratio(Sub(Times(4, Sub(s[1], xz)), s[3]), rn, rd),
       Sub(Add(Add(Sub(Sub(s[4], s[5]), Cube(s[4])), I2), Ratio(s[6], 2, 1000)),
           Ratio(Sub(s[3], (7 * Scale) \div 2), 3, 10)),
       Ratio(Sub(Pow4(s[4]), s[5]), 1, tau),
       Ratio(Sub(s[6], Ratio(s[1], 1, 10)), -1, 100) >>

\* a derivative that leaves the coupling out of dx1
epileptor_dfun_uncoupled(st, coupling, xv) ==
    [i \in Regions |-> Derivative(st[i], 0, X0At(xv, i),
                                  Iext1, Iext2, tau0, RNum, RDen)]
epileptor_dfun(st, coupling, xv) ==
    [i \in Regions |-> Derivative(st[i], coupling[i], X0At(xv, i),
                                  Iext1, Iext2, tau0, RNum, RDen)]

dfun(st, coupling, param_x0) ==
    [i \in Regions |-> Derivative(st[i], coupling[i], X0At(param_x0, i),
                                  Iext1, Iext2, tau0, RNum, RDen)]

\* the update with a step a hundred times longer
EulerRegionCoarse(s, d) ==
    << Add(s[1], Ratio(d[1], 100 * DT, TimeScale)), Add(s[2], Ratio(d[2], 100 * DT, TimeScale)),
       Add(s[3], Ratio(d[3], 100 * DT, TimeScale)), Add(s[4], Ratio(d[4], 100 * DT, TimeScale)),
       Add(s[5], Ratio(d[5], 100 * DT, TimeScale)), Add(s[6], Ratio(d[6], 100 * DT, TimeScale)) >>
\* state + deriv * dt
EulerRegion(s, d) ==
    << Add(s[1], Ratio(d[1], DT, TimeScale)), Add(s[2], Ratio(d[2], DT, TimeScale)),
       Add(s[3], Ratio(d[3], DT, TimeScale)), Add(s[4], Ratio(d[4], DT, TimeScale)),
       Add(s[5], Ratio(d[5], DT, TimeScale)), Add(s[6], Ratio(d[6], DT, TimeScale)) >>

Euler(st, deriv) ==
    [i \in Regions |-> LET s == st[i]
                           d == deriv[i]
                       IN EulerRegion(s, d)]

\* noise on the x1 (channel 1) and x2 (channel 4) columns
\* noise that also reaches the y1 channel
AddNoiseAllFast(st, noise) ==
    [i \in Regions |->
        LET s == st[i]
        IN << Add(s[1], noise.n1[i]), Add(s[2], noise.n1[i]), s[3],
              Add(s[4], noise.n2[i]), s[5], s[6] >>]
AddNoise(st, noise) ==
    [i \in Regions |->
        LET s == st[i]
        IN << Add(s[1], noise.n1[i]), s[2], s[3], Add(s[4], noise.n2[i]), s[5], s[6] >>]

\* Epileptor.step (vep)
step(st, coupling, xv, noise) == AddNoise(Euler(st, epileptor_dfun(st, coupling, xv)), noise)

\* Epileptor.integrate_step (core)
integrate_step(st, coupling, xv, noise) == AddNoise(Euler(st, dfun(st, coupling, xv)), noise)

\* Epileptor.initial_state of each variant; draw is the normal perturbation
X1Rest == -1600

initial_state(v, draw) ==
    [i \in Regions |->
        << X1Rest + draw[i], -10 * Scale, 3 * Scale,
           IF v = "vep" THEN -Scale ELSE -(3 * Scale) \div 2, 0, 0 >>]

\* Epileptor.__init__ and set_epileptogenic_zones (vep): x0[indices] = x0_value
\* a setter that puts every other region back to the healthy value
set_epileptogenic_zones_reset(xv, indices, value) ==
    [i \in Regions |-> IF i \in indices THEN value ELSE x0_healthy]
set_epileptogenic_zones(xv, indices, value) ==
    [i \in Regions |-> IF i \in indices THEN value ELSE xv[i]]

\* Epileptor.set_epileptogenicity (core): param_x0 = x0.astype(float64)
set_epileptogenicity(xin) == xin

Kick == Scale \div 2
ZeroVec == [i \in Regions |-> 0]
\* draws of np.random.normal for one step
NoiseDraws ==
    { [n1 |-> ZeroVec, n2 |-> ZeroVec],
      [n1 |-> [ZeroVec EXCEPT ![1] = Kick], n2 |-> ZeroVec],
      [n1 |-> [ZeroVec EXCEPT ![1] = -Kick], n2 |-> ZeroVec],
      [n1 |-> ZeroVec, n2 |-> [ZeroVec EXCEPT ![NRegions] = Kick]] }
IsKick(noise) == noise.n1 # ZeroVec \/ noise.n2 # ZeroVec

\* phys_cfg.noise (vep) and sig (core), in units of 1e-4
NoiseVep == 1
NoiseCore == 2

\* draws that ignore the amplitude
StepDrawsAnyAmplitude(sg) == NoiseDraws
\* np.random.normal(0, amp, n) for one step: exactly zero when amp is zero
StepDraws(sg) == IF sg = 0 THEN { [n1 |-> ZeroVec, n2 |-> ZeroVec] } ELSE NoiseDraws

\* np.random is one generator per process: pos counts the calls made on it by
\* anyone, own the calls made by the simulator under study, last the
\* position in the stream of its latest call
FreshRng == [pos |-> 0, own |-> 0, last |-> -1]
\* np.random.normal calls per step: two in Epileptor.step, one in integrate_step
CallsPerStep(v) == IF v = "vep" THEN 2 ELSE 1
Draw(g, calls) ==
    [pos |-> g.pos + calls, own |-> g.own + calls, last |-> g.pos + calls - 1]
PeerDraw(g, calls) == [g EXCEPT !.pos = g.pos + calls]

\* draws of the initial perturbation
InitDraws == { ZeroVec, [ZeroVec EXCEPT ![1] = (11 * Scale) \div 10] }

-----------------------------------------------------------------------------
(* Connectome and delay coupling: simulator.py 17-58, forward.py 13-72 *)

Abs(a) == IF a < 0 THEN -a ELSE a

\* anatomy.weights: non-negative, zero diagonal, max 1
Weights ==
    [i \in Regions |-> [j \in Regions |->
        IF i = j THEN 0 ELSE IF i < j THEN Scale ELSE Scale \div 2]]

\* anatomy.distances / lengths: symmetric, zero diagonal
Lengths(u) == [i \in Regions |-> [j \in Regions |-> u * Abs(i - j)]]
LengthUnits == {0, 35}

\* delays rounded up to the next step
ComputeDelaysRoundedUp(len, v) ==
    [i \in Regions |-> [j \in Regions |-> TruncDiv(len[i][j], v * DT) + 1]]
\* (distances / (v * dt)).astype(np.int32)
ComputeDelays(len, v) ==
    [i \in Regions |-> [j \in Regions |-> TruncDiv(len[i][j], v * DT)]]

MaxDelay(d) == SetMax({d[i][j] : i \in Regions, j \in Regions})

BufferSize(d) == MaxDelay(d) + Margin

\* the slot read for a delay, and the slot written by step st
ReadIdx(st, delay, B) == (st - delay) % B
\* a write into the slot the step reads as current
WriteIdxCurrent(st, B) == st % B
WriteIdx(st, B) == (st + 1) % B

\* a test that also skips the weaker edges
ContributesStrong(w) == Gt(w, Scale \div 2)
\* if w > 0
Contributes(w) == Gt(w, 0)

RECURSIVE CouplingSum(_, _, _, _, _, _, _)
CouplingSum(h, w, d, st, B, i, j) ==
    IF j = 0 THEN 0
    ELSE LET rest == CouplingSum(h, w, d, st, B, i, j - 1)
         IN IF Contributes(w[i][j])
            THEN Add(rest, Mul(w[i][j],
                     Sub(h[ReadIdx(st, d[i][j], B) + 1][j], h[(st % B) + 1][i])))
            ELSE rest

compute_coupling(h, w, d, st, B, a) ==
    [i \in Regions |-> Mul(a, CouplingSum(h, w, d, st, B, i, NRegions))]

compute_delay_coupling(h, w, d, st, B, a) ==
    [i \in Regions |-> Mul(a, CouplingSum(h, w, d, st, B, i, NRegions))]

-----------------------------------------------------------------------------
(* Checkpoint files: np.savez_compressed / np.load as simulator.py 122-132, *)
(* viewer.py 20-38 and app.py 280-289 use them                              *)

\* a path is its name without the extension, and the extension
MkPath(stem, ext) == [stem |-> stem, ext |-> ext]
NoPath == MkPath("", "")
Paths == { MkPath("checkpoint", ""), MkPath("checkpoint", ".npz") }

\* np.savez_compressed appends ".npz" to a file name that does not end with it
NpzName(p) == IF p.ext = ".npz" THEN p ELSE MkPath(p.stem, ".npz")

NoFile == [kind |-> "none", keys |-> {}, time |-> << >>, data |-> << >>,
           onset_times |-> << >>]
CorruptFile == [NoFile EXCEPT !.kind = "corrupt"]
NpzFile(keys, tm, dat, onsets) ==
    [kind |-> "npz", keys |-> keys, time |-> tm, data |-> dat, onset_times |-> onsets]

SimulatorKeys == {"time", "data", "onset_times", "x0", "labels"}
AppKeys == {"time", "data", "onset_times", "x0_values", "atlas", "cortex"}
ViewerKeys == {"time", "data", "onset_times", "x0_values", "atlas", "cortex"}

\* an earlier result: one sample, nothing recruited
OldOnsets == [i \in Regions |-> Sentinel]
OldData == << [i \in Regions |-> X1Rest] >>
OldTime == << 0 >>

EmptyFs == [p \in Paths |-> NoFile]
FsInits ==
    { EmptyFs,
      [EmptyFs EXCEPT ![MkPath("checkpoint", ".npz")] =
          NpzFile(SimulatorKeys, OldTime, OldData, OldOnsets)],
      [EmptyFs EXCEPT ![MkPath("checkpoint", ".npz")] =
          NpzFile(AppKeys, OldTime, OldData, OldOnsets)],
      [EmptyFs EXCEPT ![MkPath("checkpoint", ".npz")] =
          NpzFile({"time", "onset_times"}, OldTime, << >>, OldOnsets)],
      [EmptyFs EXCEPT ![MkPath("checkpoint", ".npz")] = CorruptFile] }

exists(files, p) == files[p].kind # "none"

\* Simulator.save_checkpoint: the file system after the call
save_checkpoint(files, p, tm, dat, onsets) ==
    [files EXCEPT ![NpzName(p)] = NpzFile(SimulatorKeys, tm, dat, onsets)]

NoLoad == [status |-> "none", time |-> << >>, data |-> << >>, onset_times |-> << >>]

\* np.load(path, allow_pickle=True): the opened container, or the exception
np_load(files, p) ==
    IF files[p].kind = "none" THEN "FileNotFoundError"
    ELSE IF files[p].kind = "corrupt" THEN "UnpicklingError"
    ELSE "ok"

\* a lookup that falls back to an empty array
NpzHasDefault(f, key) == TRUE
\* npz[key]: whether the lookup succeeds
NpzHas(f, key) == key \in f.keys

\* Simulator.load_checkpoint: the three arrays, or the exception raised
load_checkpoint(files, p) ==
    LET opened == np_load(files, p)
        f == files[p]
    IN IF opened # "ok" THEN [NoLoad EXCEPT !.status = opened]
       ELSE IF ~(NpzHas(f, "time") /\ NpzHas(f, "data") /\ NpzHas(f, "onset_times"))
            THEN [NoLoad EXCEPT !.status = "KeyError"]
       ELSE [status |-> "ok", time |-> f.time, data |-> f.data,
             onset_times |-> f.onset_times]

\* viewer.py main: the arrays handed to the visualizer, or how it ended
viewer_load(files, p) ==
    LET f == files[p]
    IN IF ~exists(files, p) THEN [NoLoad EXCEPT !.status = "exit1"]
       ELSE IF np_load(files, p) # "ok" THEN [NoLoad EXCEPT !.status = np_load(files, p)]
       ELSE IF \E k \in ViewerKeys : ~NpzHas(f, k)
            THEN [NoLoad EXCEPT !.status = "KeyError"]
       ELSE [status |-> "ok", time |-> f.time, data |-> f.data,
             onset_times |-> f.onset_times]

-----------------------------------------------------------------------------
(* Inputs *)

HealthyVec == [i \in Regions |-> x0_healthy]

\* durations given to run, in time units: negative, zero, below dt, a few
\* steps
Durations == { -(2 * DT), -3, 0, 3, 2 * DT + 1 }
\* a run longer than the ring buffer
LongDuration == MaxSteps * DT

MkArgs(op, duration, checkpoint, save, resume) ==
    [op |-> op, duration |-> duration, checkpoint |-> checkpoint,
     save_checkpoint |-> save, resume |-> resume]

\* Simulator(anatomy, sim_cfg, phys_cfg) with run(ez_indices):
\* <<phys_cfg.velocity, phys_cfg.x0_ez, ez_indices>>
VepConfigs ==
    { << CONDUCTION_VELOCITY, X0_EZ_DEFAULT, {} >>,
      << CONDUCTION_VELOCITY, X0_EZ_DEFAULT, {1} >>,
      << CONDUCTION_VELOCITY, NaN, {1} >>,
      << -CONDUCTION_VELOCITY, X0_EZ_DEFAULT, {1} >> }

NominalVepConfig == << CONDUCTION_VELOCITY, X0_EZ_DEFAULT, {1} >>

\* x0_parameters given to ForwardSimulator.run
NominalCoreX0 == [[i \in Regions |-> x0_healthy] EXCEPT ![1] = X0_EZ_DEFAULT]
CoreX0Inputs ==
    { HealthyVec,
      [HealthyVec EXCEPT ![1] = X0_EZ_DEFAULT],
      [HealthyVec EXCEPT ![1] = NaN],
      << X0_EZ_DEFAULT >> }

-----------------------------------------------------------------------------
(* The run: simulator.py 60-120 and forward.py 74-140 *)

NoResult == [time |-> << >>, data |-> << >>, onset_times |-> << >>, returned |-> FALSE]

\* duration = duration or self.sim_cfg.duration (vep); the argument (core)
EffectiveDuration(v, duration) ==
    IF v = "vep" /\ duration = 0 THEN SimCfgDuration ELSE duration

\* int(duration / dt)
StepCount(duration) == TruncDiv(duration, DT)

\* max(1, int(1.0 / dt)) (vep), int(2.0 / config.DT) (core)
Downsample(v) ==
    IF v = "vep" THEN Max2(1, TruncDiv(TimeScale, DT)) ELSE TruncDiv(2 * TimeScale, DT)

\* np.linspace(0, duration, n)
Linspace(duration, n) ==
    [k \in 1..n |-> IF n = 1 THEN 0 ELSE ((k - 1) * duration) \div (n - 1)]

\* .astype(np.float32): the value on the coarser grid of the output
F32Grain == 8
F32(a) == IF a = NaN THEN NaN ELSE TruncDiv(a, F32Grain) * F32Grain

X1Of(st) == [i \in Regions |-> st[i][1]]

\* a loop that stores every step
SavesEveryStep(st, ds) == TRUE
\* if t % downsample == 0
Saves(st, ds) == st % ds = 0

Threshold(v) == IF v = "vep" THEN ThresholdVep ELSE ThresholdCore

\* an onset mask that forgets the still-unset test
spiking_unguarded(v, x1, onset) == Gt(x1, Threshold(v))

\* the onset mask of one region: (x1 > threshold) & (onset_times < 0) (vep),
\* (x1 > -1.2) & (onset_times == -1.0) (core)
spiking(v, x1, onset) ==
    Gt(x1, Threshold(v)) /\ (IF v = "vep" THEN onset < 0 ELSE onset = Sentinel)

\* the time of the end of the step
OnsetStampNext(st) == (st + 1) * DT
\* t * dt
OnsetStamp(st) == st * DT

CouplingStrength(v) == IF v = "vep" THEN CouplingVep ELSE GLOBAL_COUPLING

\* a coupling that takes the slot about to be written for the current one
CouplingNextSlot(v, h, d, st, B) ==
    IF v = "vep" THEN compute_coupling(h, Weights, d, st + 1, B, CouplingStrength(v))
    ELSE compute_delay_coupling(h, Weights, d, st + 1, B, CouplingStrength(v))
\* coupling = compute_coupling(history, weights, delays, t, buffer_size, a)
Coupling(v, h, d, st, B) ==
    IF v = "vep" THEN compute_coupling(h, Weights, d, st, B, CouplingStrength(v))
    ELSE compute_delay_coupling(h, Weights, d, st, B, CouplingStrength(v))

ModelStep(v, st, coupling, xv, noise) ==
    IF v = "vep" THEN step(st, coupling, xv, noise)
    ELSE integrate_step(st, coupling, xv, noise)

\* run up to the loop: lines 66-89 (vep), 78-109 (core)
RunBeginOn(xv, xin, durArg, draw) ==
    LET duration == EffectiveDuration(variant, durArg)
        steps == StepCount(duration)
        saved == steps \div Downsample(variant)
        st0 == initial_state(variant, draw)
    IN /\ x0' = IF variant = "vep"
                THEN set_epileptogenic_zones(xv, xin.ez, x0_ez)
                ELSE set_epileptogenicity(xin.vec)
       /\ n_steps' = steps
       /\ n_saved' = saved
       /\ state' = st0
       /\ history' = [k \in 1..buffer_size |-> X1Of(st0)]
       /\ trace' = << X1Of(st0) >>
       /\ t' = 0
       /\ kicks' = 0
       /\ rng' = Draw(rng, 1)
       /\ IF saved < 0
          THEN \* np.zeros((n_saved, n_regions)) with a negative dimension
               /\ pc' = "error"
               /\ err' = "ValueError"
               /\ data' = << >>
               /\ onset_times' = << >>
               /\ result' = NoResult
          ELSE /\ pc' = "loop"
               /\ err' = "none"
               /\ data' = [k \in 1..saved |-> ZeroVec]
               /\ onset_times' = [i \in Regions |-> Sentinel]
               /\ result' = [NoResult EXCEPT !.time = Linspace(duration, saved)]

\* run on the model of this Simulator, whose x0 is what it was left as
RunBeginWith(xin, durArg, draw) == RunBeginOn(x0, xin, durArg, draw)

RunBegin(durArg, draw) == RunBeginWith(x0_input, durArg, draw)

\* one iteration of the integration loop: lines 92-114 (vep), 112-138 (core)
Step ==
    /\ pc = "loop"
    /\ t < n_steps
    /\ \E noise \in StepDraws(sigma) :
         /\ IsKick(noise) => kicks < MaxKicks
         /\ LET coupling == Coupling(variant, history, delays, t, buffer_size)
                new == ModelStep(variant, state, coupling, x0, noise)
                idx == t \div Downsample(variant)
            IN /\ state' = new
               /\ history' = [history EXCEPT ![WriteIdx(t, buffer_size) + 1] = X1Of(new)]
               /\ onset_times' = [i \in Regions |->
                                    IF spiking(variant, new[i][1], onset_times[i])
                                    THEN OnsetStamp(t) ELSE onset_times[i]]
               /\ data' = IF Saves(t, Downsample(variant)) /\ idx < n_saved
                          THEN [data EXCEPT ![idx + 1] = [i \in Regions |-> F32(new[i][1])]]
                          ELSE data
               /\ trace' = Append(trace, X1Of(new))
               /\ kicks' = IF IsKick(noise) THEN kicks + 1 ELSE kicks
    /\ rng' = Draw(rng, CallsPerStep(variant))
    /\ t' = t + 1
    /\ UNCHANGED << gui, prog, variant, args, velocity, x0_ez, x0_input, sigma, lengths,
                    peer, probe, delays, buffer_size,
                    x0, pc, n_steps, n_saved, result, fs, saved_path, load_path,
                    loaded, err >>

\* np.sum(onset_times > 0): the regions the run log, the pipeline report,
\* the analytics and the desktop status line count as recruited
recruited(onsets) == {i \in DOMAIN onsets : onsets[i] > 0}

\* the loop is exhausted: return time, data, onset_times
Return ==
    /\ pc = "loop"
    /\ t >= n_steps
    /\ result' = [time |-> result.time, data |-> data, onset_times |-> onset_times,
                  returned |-> TRUE]
    /\ pc' = "done"
    /\ UNCHANGED << gui, prog, variant, args, velocity, x0_ez, x0_input, sigma, lengths,
                    peer, probe, delays, buffer_size,
                    x0, n_steps, n_saved, t, state, history, onset_times, data, kicks,
                    trace, fs, saved_path, load_path, loaded, err, rng >>

-----------------------------------------------------------------------------
(* Callers of the simulator *)

\* Simulator.run / ForwardSimulator.run called directly
ApiRun ==
    /\ prog \in {"api", "pair", "session"} /\ args.op = "run" /\ pc = "ready"
    /\ \E draw \in InitDraws : RunBegin(args.duration, draw)
    /\ UNCHANGED << gui, prog, variant, args, velocity, x0_ez, x0_input, sigma, lengths,
                    peer, probe, delays, buffer_size,
                    fs, saved_path, load_path, loaded >>

\* ez_indices of a second run on the same Simulator
EzChoices == { {}, {NRegions} }

\* Simulator.run(ez_indices) called again on the instance that has run
SessionRerun ==
    /\ prog = "session" /\ args.op = "run" /\ pc = "done"
    /\ \E ez \in EzChoices, draw \in InitDraws :
         /\ x0_input' = [x0_input EXCEPT !.ez = ez]
         /\ RunBeginWith([x0_input EXCEPT !.ez = ez], args.duration, draw)
    /\ args' = [args EXCEPT !.op = "rerun"]
    /\ UNCHANGED << gui, prog, variant, velocity, x0_ez, sigma, lengths, peer, probe, delays,
                    buffer_size, fs, saved_path, load_path, loaded >>

\* Simulator.save_checkpoint(path, time, data, onset_times) on the result of run
ApiSave ==
    /\ prog = "api" /\ variant = "vep" /\ pc = "done"
    /\ \E p \in Paths :
         /\ fs' = save_checkpoint(fs, p, result.time, result.data, result.onset_times)
         /\ saved_path' = p
    /\ pc' = "saved"
    /\ UNCHANGED << gui, prog, variant, args, velocity, x0_ez, x0_input, sigma, lengths,
                    peer, probe, delays, buffer_size,
                    x0, n_steps, n_saved, t, state, history, onset_times, data, result,
                    kicks, trace, load_path, loaded, err, rng >>

\* Simulator.load_checkpoint(path), on a fresh simulator or after a save
ApiLoad ==
    /\ prog = "api" /\ variant = "vep"
    /\ (pc = "ready" /\ args.op = "load") \/ pc = "saved"
    /\ \E q \in Paths :
         /\ load_path' = q
         /\ loaded' = load_checkpoint(fs, q)
         /\ pc' = IF load_checkpoint(fs, q).status = "ok" THEN "loaded" ELSE "error"
         /\ err' = IF load_checkpoint(fs, q).status = "ok" THEN "none"
                   ELSE load_checkpoint(fs, q).status
    /\ UNCHANGED << gui, prog, variant, args, velocity, x0_ez, x0_input, sigma, lengths,
                    peer, probe, delays, buffer_size,
                    x0, n_steps, n_saved, t, state, history, onset_times, data, result,
                    kicks, trace, fs, saved_path, rng >>

\* viewer.py main(checkpoint_path)
ViewerMain ==
    /\ prog = "viewer" /\ pc = "ready"
    /\ load_path' = args.checkpoint
    /\ loaded' = viewer_load(fs, args.checkpoint)
    /\ pc' = IF viewer_load(fs, args.checkpoint).status = "ok" THEN "viewing"
             ELSE IF viewer_load(fs, args.checkpoint).status = "exit1" THEN "exit"
             ELSE "error"
    /\ err' = IF viewer_load(fs, args.checkpoint).status = "ok" THEN "none"
              ELSE viewer_load(fs, args.checkpoint).status
    /\ UNCHANGED << gui, prog, variant, args, velocity, x0_ez, x0_input, sigma, lengths,
                    peer, probe, delays, buffer_size,
                    x0, n_steps, n_saved, t, state, history, onset_times, data, result,
                    kicks, trace, fs, saved_path, rng >>

\* pipeline.py main, lines 119-123: --checkpoint given, load instead of running
PipelineLoad ==
    /\ prog = "pipeline" /\ pc = "ready"
    /\ args.checkpoint # NoPath
    /\ load_path' = args.checkpoint
    /\ loaded' = load_checkpoint(fs, args.checkpoint)
    /\ IF load_checkpoint(fs, args.checkpoint).status = "ok"
       THEN /\ result' = [time |-> load_checkpoint(fs, args.checkpoint).time,
                          data |-> load_checkpoint(fs, args.checkpoint).data,
                          onset_times |-> load_checkpoint(fs, args.checkpoint).onset_times,
                          returned |-> FALSE]
            /\ x0' = set_epileptogenic_zones(x0, x0_input.ez, x0_ez)
            /\ pc' = "have_result"
            /\ err' = "none"
       ELSE /\ pc' = "error"
            /\ err' = load_checkpoint(fs, args.checkpoint).status
            /\ UNCHANGED << result, x0 >>
    /\ UNCHANGED << gui, prog, variant, args, velocity, x0_ez, x0_input, sigma, lengths,
                    peer, probe, delays, buffer_size,
                    n_steps, n_saved, t, state, history, onset_times, data, kicks,
                    trace, fs, saved_path, rng >>

\* pipeline.py main, lines 124-126: no --checkpoint, run the simulation
PipelineRun ==
    /\ prog = "pipeline" /\ pc = "ready"
    /\ args.checkpoint = NoPath
    /\ \E draw \in InitDraws : RunBegin(args.duration, draw)
    /\ UNCHANGED << gui, prog, variant, args, velocity, x0_ez, x0_input, sigma, lengths,
                    peer, probe, delays, buffer_size,
                    fs, saved_path, load_path, loaded >>

\* pipeline.py main, lines 128-129: save the fresh result when asked to
PipelineSave ==
    /\ prog = "pipeline" /\ pc = "done"
    /\ IF args.save_checkpoint # NoPath
       THEN /\ fs' = save_checkpoint(fs, args.save_checkpoint, result.time, result.data,
                                     result.onset_times)
            /\ saved_path' = args.save_checkpoint
       ELSE UNCHANGED << fs, saved_path >>
    /\ pc' = "have_result"
    /\ UNCHANGED << gui, prog, variant, args, velocity, x0_ez, x0_input, sigma, lengths,
                    peer, probe, delays, buffer_size,
                    x0, n_steps, n_saved, t, state, history, onset_times, data, result,
                    kicks, trace, load_path, loaded, err, rng >>

\* pipeline.py main, lines 131-146: statistics and report
PipelineReport ==
    /\ prog = "pipeline" /\ pc = "have_result"
    /\ pc' = "reported"
    /\ UNCHANGED << gui, prog, variant, args, velocity, x0_ez, x0_input, sigma, lengths,
                    peer, probe, delays, buffer_size,
                    x0, n_steps, n_saved, t, state, history, onset_times, data, result,
                    kicks, trace, fs, saved_path, load_path, loaded, err, rng >>

\* main_pipeline.py main, lines 125-127: --resume and the file exists;
\* ForwardSimulator defines no load_checkpoint
MainResume ==
    /\ prog = "main_pipeline" /\ pc = "ready"
    /\ args.resume /\ exists(fs, args.checkpoint)
    /\ load_path' = args.checkpoint
    /\ pc' = "error"
    /\ err' = "AttributeError"
    /\ UNCHANGED << gui, prog, variant, args, velocity, x0_ez, x0_input, sigma, lengths,
                    peer, probe, delays, buffer_size,
                    x0, n_steps, n_saved, t, state, history, onset_times, data, result,
                    kicks, trace, fs, saved_path, loaded, rng >>

\* main_pipeline.py main, lines 128-129: otherwise run the simulation
MainRun ==
    /\ prog = "main_pipeline" /\ pc = "ready"
    /\ ~(args.resume /\ exists(fs, args.checkpoint))
    /\ \E draw \in InitDraws : RunBegin(args.duration, draw)
    /\ UNCHANGED << gui, prog, variant, args, velocity, x0_ez, x0_input, sigma, lengths,
                    peer, probe, delays, buffer_size,
                    fs, saved_path, load_path, loaded >>

\* main_pipeline.py main, line 130: ForwardSimulator defines no save_checkpoint
MainSave ==
    /\ prog = "main_pipeline" /\ pc = "done"
    /\ pc' = "error"
    /\ err' = "AttributeError"
    /\ UNCHANGED << gui, prog, variant, args, velocity, x0_ez, x0_input, sigma, lengths,
                    peer, probe, delays, buffer_size,
                    x0, n_steps, n_saved, t, state, history, onset_times, data, result,
                    kicks, trace, fs, saved_path, load_path, loaded, rng >>

-----------------------------------------------------------------------------
(* A second Simulator of the same process, running the same run() *)

NoPeer == [pc |-> "none", t |-> 0, n_steps |-> 0]
ReadyPeer == [pc |-> "ready", t |-> 0, n_steps |-> 0]

\* the other instance enters run: initial_state draws from np.random
PeerRun ==
    /\ prog = "pair" /\ peer.pc = "ready"
    /\ peer' = [pc |-> "loop", t |-> 0,
                n_steps |-> StepCount(EffectiveDuration(variant, args.duration))]
    /\ rng' = PeerDraw(rng, 1)
    /\ UNCHANGED << gui, prog, variant, args, velocity, x0_ez, x0_input, sigma, lengths,
                    probe, delays, buffer_size, x0, pc, n_steps, n_saved, t, state,
                    history, onset_times, data, result, kicks, trace, fs, saved_path,
                    load_path, loaded, err >>

\* one iteration of the other instance's loop: its own state and history,
\* and the noise calls on np.random
PeerStep ==
    /\ prog = "pair" /\ peer.pc = "loop" /\ peer.t < peer.n_steps
    /\ peer' = [peer EXCEPT !.t = peer.t + 1]
    /\ rng' = PeerDraw(rng, CallsPerStep(variant))
    /\ UNCHANGED << gui, prog, variant, args, velocity, x0_ez, x0_input, sigma, lengths,
                    probe, delays, buffer_size, x0, pc, n_steps, n_saved, t, state,
                    history, onset_times, data, result, kicks, trace, fs, saved_path,
                    load_path, loaded, err >>

PeerReturn ==
    /\ prog = "pair" /\ peer.pc = "loop" /\ peer.t >= peer.n_steps
    /\ peer' = [peer EXCEPT !.pc = "done"]
    /\ UNCHANGED << gui, prog, variant, args, velocity, x0_ez, x0_input, sigma, lengths,
                    probe, delays, buffer_size, x0, pc, n_steps, n_saved, t, state,
                    history, onset_times, data, result, kicks, trace, fs, saved_path,
                    load_path, loaded, err, rng >>

-----------------------------------------------------------------------------
(* tests/test_physics.py: the model and the coupling kernel called directly *)

NoProbe == [kind |-> "none"]

\* draws of the initial perturbation seen by the tests: also a low one
TestInitDraws == InitDraws \cup { [ZeroVec EXCEPT ![NRegions] = -(Scale \div 2)] }

\* np.zeros(n) and np.ones(n) * 2.0
TestCouplings == { ZeroVec, [i \in Regions |-> 2 * Scale] }

\* weight matrices: the connectome's, an empty one, one with a missing edge
WeightMatrices ==
    { Weights,
      [i \in Regions |-> [j \in Regions |-> 0]],
      [Weights EXCEPT ![1][NRegions] = 0] }

\* history buffers of B slots whose entries differ from slot to slot
TestHistory(B, m) ==
    [k \in 1..B |-> [j \in Regions |-> X1Rest + m * k * j * F32Grain]]
TestSlopes == { 0, 1, -3 }

\* state = model.initial_state()
TestInitialState ==
    /\ prog = "test" /\ args.op = "step" /\ pc = "ready"
    /\ \E draw \in TestInitDraws : state' = initial_state(variant, draw)
    /\ rng' = Draw(rng, 1)
    /\ pc' = "test_state"
    /\ UNCHANGED << gui, prog, variant, args, velocity, x0_ez, x0_input, sigma, lengths,
                    peer, probe, delays, buffer_size, x0, n_steps, n_saved, t, history,
                    onset_times, data, result, kicks, trace, fs, saved_path, load_path,
                    loaded, err >>

\* the array handed to a step, as the caller finds it after the call: vep
\* builds new_state = state + deriv * dt, core does state += derivs * dt on
\* the argument and returns that same array
ArgAfterStep(v, st, next) == IF v = "vep" THEN st ELSE next

\* state_a = step(state.copy(), coupling_a); state_b = step(state.copy(), coupling_b)
TestStepPair ==
    /\ prog = "test" /\ pc = "test_state"
    /\ \E ca \in TestCouplings, cb \in TestCouplings :
       \E na \in StepDraws(sigma), nb \in StepDraws(sigma) :
         probe' = [kind |-> "steps", ca |-> ca, cb |-> cb, na |-> na, nb |-> nb,
                   a |-> ModelStep(variant, state, ca, x0, na),
                   b |-> ModelStep(variant, state, cb, x0, nb),
                   arg_a |-> ArgAfterStep(variant, state,
                                          ModelStep(variant, state, ca, x0, na)),
                   arg_b |-> ArgAfterStep(variant, state,
                                          ModelStep(variant, state, cb, x0, nb))]
    /\ rng' = Draw(rng, 2 * CallsPerStep(variant))
    /\ pc' = "test_done"
    /\ UNCHANGED << gui, prog, variant, args, velocity, x0_ez, x0_input, sigma, lengths,
                    peer, delays, buffer_size, x0, n_steps, n_saved, t, state, history,
                    onset_times, data, result, kicks, trace, fs, saved_path, load_path,
                    loaded, err >>

\* compute_coupling / compute_delay_coupling on a given buffer
TestCoupling ==
    /\ prog = "test" /\ args.op = "coupling" /\ pc = "ready"
    /\ \E w \in WeightMatrices, m \in TestSlopes, st \in 0..MaxSteps :
         LET h == TestHistory(buffer_size, m)
         IN probe' = [kind |-> "coupling", history |-> h, weights |-> w, step |-> st,
                      out |-> IF variant = "vep"
                              THEN compute_coupling(h, w, delays, st, buffer_size,
                                                    CouplingStrength(variant))
                              ELSE compute_delay_coupling(h, w, delays, st, buffer_size,
                                                          CouplingStrength(variant)),
                      history_after |-> h]
    /\ pc' = "test_done"
    /\ UNCHANGED << gui, prog, variant, args, velocity, x0_ez, x0_input, sigma, lengths,
                    peer, delays, buffer_size, x0, n_steps, n_saved, t, state, history,
                    onset_times, data, result, kicks, trace, fs, saved_path, load_path,
                    loaded, err, rng >>

-----------------------------------------------------------------------------
(* Initial states: a constructed simulator, the caller's arguments, the files *)

MkInput(ez, vec) == [ez |-> ez, vec |-> vec]

\* Simulator.__init__ (lines 43-58) / ForwardSimulator.__init__ (lines 55-72)
\* atlas_combo and cortex_combo: two of the entries of each
Atlases == {"76", "192"}
Cortices == {"16k", "80k"}

NoGui == [kind |-> "none"]
NoWorker == [status |-> "none"]
NoStored == [set |-> FALSE]
NoCheckpoint == [written |-> FALSE]

\* VEPConfigWindow.__init__: result None, default selections, Run enabled
InitGui ==
    [kind |-> "window", atlas |-> "76", cortex |-> "16k", run_btn |-> TRUE,
     worker |-> NoWorker, active |-> 0, runs |-> 0, edits |-> 0, signals |-> << >>,
     result |-> NoStored, timers |-> 0, checkpoint |-> NoCheckpoint]

\* all variables but gui
Backend == << prog, variant, args, velocity, x0_ez, x0_input, sigma, lengths, delays,
              buffer_size, x0, pc, n_steps, n_saved, t, state, history, onset_times,
              data, result, kicks, trace, fs, saved_path, load_path, loaded, err, rng,
              peer, probe >>

\* the user picks another entry of atlas_combo / cortex_combo; the combos
\* stay enabled while a worker runs
AppSelectAtlas ==
    /\ prog = "app"
    /\ gui.edits < MaxEdits
    /\ \E a \in Atlases \ {gui.atlas} :
         gui' = [gui EXCEPT !.atlas = a, !.edits = @ + 1]
    /\ UNCHANGED Backend

AppSelectCortex ==
    /\ prog = "app"
    /\ gui.edits < MaxEdits
    /\ \E c \in Cortices \ {gui.cortex} :
         gui' = [gui EXCEPT !.cortex = c, !.edits = @ + 1]
    /\ UNCHANGED Backend

\* VEPConfigWindow._run_simulation, on a click of the enabled Run button
AppRunSimulation ==
    /\ prog = "app"
    /\ gui.run_btn
    /\ gui.runs < MaxRuns
    /\ gui' = [gui EXCEPT !.run_btn = FALSE,
                          !.worker = [status |-> "started", atlas |-> gui.atlas,
                                      cortex |-> gui.cortex],
                          !.active = @ + 1,
                          !.runs = @ + 1]
    /\ UNCHANGED Backend

\* SimulationWorker.run up to the loop of Simulator.run: anatomy of the
\* worker's atlas and cortex, a new Simulator (healthy x0), run(ez_indices)
AppWorkerRun ==
    /\ prog = "app"
    /\ gui.worker.status = "started"
    /\ \E draw \in InitDraws : RunBeginOn(HealthyVec, x0_input, args.duration, draw)
    /\ gui' = [gui EXCEPT !.worker.status = "running"]
    /\ UNCHANGED << prog, variant, args, velocity, x0_ez, x0_input, sigma, lengths,
                    peer, probe, delays, buffer_size,
                    fs, saved_path, load_path, loaded >>

\* SimulationWorker.run after Simulator.run: finished.emit(result, None, "")
\* or, on an exception, finished.emit(None, None, traceback); the thread ends
AppWorkerFinished ==
    /\ prog = "app"
    /\ gui.worker.status = "running"
    /\ pc \in {"done", "error"}
    /\ gui' = [gui EXCEPT
                 !.worker.status = "finished",
                 !.active = @ - 1,
                 !.signals = Append(@, IF pc = "error" THEN [error |-> TRUE]
                                       ELSE [error |-> FALSE, time |-> result.time,
                                             data |-> result.data,
                                             onset_times |-> result.onset_times,
                                             atlas |-> gui.worker.atlas,
                                             cortex |-> gui.worker.cortex])]
    /\ UNCHANGED Backend

\* VEPConfigWindow._on_simulation_done, the slot of the queued finished
\* signal: atlas and cortex of result are those of result['anatomy']
AppOnSimulationDone ==
    /\ prog = "app"
    /\ gui.signals # << >>
    /\ LET sig == Head(gui.signals)
       IN gui' = IF sig.error
                 THEN [gui EXCEPT !.run_btn = TRUE, !.signals = Tail(@)]
                 ELSE [gui EXCEPT !.run_btn = TRUE, !.signals = Tail(@),
                                  !.result = [set |-> TRUE, time |-> sig.time,
                                              data |-> sig.data,
                                              onset_times |-> sig.onset_times,
                                              atlas |-> sig.atlas,
                                              cortex |-> sig.cortex],
                                  !.timers = @ + 1]
    /\ UNCHANGED Backend

\* VEPConfigWindow._launch_viewer, 500 ms after _on_simulation_done: the
\* checkpoint takes time, data and onset_times from self.result and atlas and
\* cortex from the combos as they are now
AppLaunchViewer ==
    /\ prog = "app"
    /\ gui.timers > 0
    /\ gui' = IF ~gui.result.set
              THEN [gui EXCEPT !.timers = @ - 1]
              ELSE [gui EXCEPT
                      !.timers = @ - 1,
                      !.checkpoint =
                          [written |-> TRUE,
                           file |-> NpzFile(AppKeys, gui.result.time, gui.result.data,
                                            gui.result.onset_times),
                           atlas |-> gui.atlas, cortex |-> gui.cortex,
                           ran_atlas |-> gui.result.atlas,
                           ran_cortex |-> gui.result.cortex]]
    /\ UNCHANGED Backend

Constructed(p, v, a, vel, xez, xin, u, files, sg) ==
    /\ prog = p
    /\ variant = v
    /\ args = a
    /\ velocity = vel
    /\ x0_ez = xez
    /\ x0_input = xin
    /\ sigma = sg
    /\ lengths = Lengths(u)
    /\ delays = ComputeDelays(Lengths(u), vel)
    /\ buffer_size = BufferSize(ComputeDelays(Lengths(u), vel))
    /\ x0 = HealthyVec
    /\ pc = "ready"
    /\ n_steps = 0
    /\ n_saved = 0
    /\ t = 0
    /\ state = << >>
    /\ history = << >>
    /\ onset_times = << >>
    /\ data = << >>
    /\ result = NoResult
    /\ kicks = 0
    /\ trace = << >>
    /\ fs = files
    /\ saved_path = NoPath
    /\ load_path = NoPath
    /\ loaded = NoLoad
    /\ err = "none"
    /\ rng = FreshRng
    /\ peer = IF p = "pair" THEN ReadyPeer ELSE NoPeer
    /\ probe = NoProbe
    /\ gui = IF p = "app" THEN InitGui ELSE NoGui

\* --duration of the pipelines
PipeDurations == { 2 * DT + 1, 4 * DT }

\* a run that saves two samples
OutputDuration == (2 * Downsample("vep") + 1) * DT

Init ==
    \/ \E cfg \in VepConfigs, u \in LengthUnits :
       \E d \in Durations \cup (IF cfg = NominalVepConfig /\ u # 0 THEN {LongDuration} ELSE {}) :
         Constructed("api", "vep", MkArgs("run", d, NoPath, NoPath, FALSE),
                     cfg[1], cfg[2], MkInput(cfg[3], << >>), u, EmptyFs, NoiseVep)
    \/ \E xin \in CoreX0Inputs, u \in LengthUnits :
       \E d \in Durations \cup (IF xin = NominalCoreX0 /\ u # 0 THEN {LongDuration} ELSE {}) :
         Constructed("api", "core", MkArgs("run", d, NoPath, NoPath, FALSE),
                     CONDUCTION_VELOCITY, X0_EZ_DEFAULT, MkInput({}, xin), u, EmptyFs,
                     NoiseCore)
    \/ \E u \in LengthUnits, ez \in {{}, {1}} :
         Constructed("api", "vep", MkArgs("run", OutputDuration, NoPath, NoPath, FALSE),
                     CONDUCTION_VELOCITY, X0_EZ_DEFAULT, MkInput(ez, << >>), u, EmptyFs, 0)
    \/ \E files \in FsInits :
         Constructed("api", "vep", MkArgs("load", 0, NoPath, NoPath, FALSE),
                     CONDUCTION_VELOCITY, X0_EZ_DEFAULT, MkInput({1}, << >>), 0, files,
                     NoiseVep)
    \/ \E d \in PipeDurations, c \in Paths \cup {NoPath},
          sv \in {NoPath, MkPath("checkpoint", ".npz")}, files \in FsInits :
         Constructed("pipeline", "vep", MkArgs("main", d, c, sv, FALSE),
                     CONDUCTION_VELOCITY, X0_EZ_DEFAULT, MkInput({1}, << >>),
                     SetMax(LengthUnits), files, NoiseVep)
    \/ \E d \in PipeDurations, c \in Paths, r \in BOOLEAN, files \in FsInits :
         Constructed("main_pipeline", "core", MkArgs("main", d, c, NoPath, r),
                     CONDUCTION_VELOCITY, X0_EZ_DEFAULT,
                     MkInput({}, [HealthyVec EXCEPT ![1] = X0_EZ_DEFAULT]),
                     SetMax(LengthUnits), files, NoiseCore)
    \/ \E c \in Paths, files \in FsInits :
         Constructed("viewer", "vep", MkArgs("main", 0, c, NoPath, FALSE),
                     CONDUCTION_VELOCITY, X0_EZ_DEFAULT, MkInput({}, << >>), 0, files,
                     NoiseVep)
    \/ Constructed("pair", "vep", MkArgs("run", 2 * DT + 1, NoPath, NoPath, FALSE),
                   CONDUCTION_VELOCITY, X0_EZ_DEFAULT, MkInput({1}, << >>),
                   SetMax(LengthUnits), EmptyFs, NoiseVep)
    \/ Constructed("app", "vep", MkArgs("run", DT + 1, NoPath, NoPath, FALSE),
                   CONDUCTION_VELOCITY, X0_EZ_DEFAULT, MkInput({1}, << >>),
                   SetMax(LengthUnits), EmptyFs, NoiseVep)
    \/ Constructed("session", "vep", MkArgs("run", 2 * DT + 1, NoPath, NoPath, FALSE),
                   CONDUCTION_VELOCITY, X0_EZ_DEFAULT, MkInput({1}, << >>),
                   SetMax(LengthUnits), EmptyFs, 0)
    \/ Constructed("test", "core", MkArgs("analytics", 0, NoPath, NoPath, FALSE),
                   CONDUCTION_VELOCITY, X0_EZ_DEFAULT, MkInput({}, HealthyVec), 0, EmptyFs,
                   NoiseCore)
    \/ \E vs \in { << "vep", 0 >>, << "vep", NoiseVep >>, << "core", NoiseCore >> } :
         Constructed("test", vs[1], MkArgs("step", 0, NoPath, NoPath, FALSE),
                     CONDUCTION_VELOCITY, X0_EZ_DEFAULT, MkInput({}, << >>), 0, EmptyFs,
                     vs[2])
    \/ \E v \in {"vep", "core"}, u \in LengthUnits,
          vel \in {CONDUCTION_VELOCITY, -CONDUCTION_VELOCITY} :
         Constructed("test", v, MkArgs("coupling", 0, NoPath, NoPath, FALSE),
                     vel, X0_EZ_DEFAULT, MkInput({}, << >>), u, EmptyFs,
                     IF v = "vep" THEN NoiseVep ELSE NoiseCore)

\* onset_times handed to the analytics: never recruited, or an onset at a
\* loop step
OnsetValues == {Sentinel, 0, DT, 2 * DT}
OnsetVectors == [Regions -> OnsetValues]

RECURSIVE SumOver(_, _)
SumOver(f, S) ==
    IF S = {} THEN 0
    ELSE LET i == CHOOSE j \in S : TRUE IN f[i] + SumOver(f, S \ {i})

\* np.mean of the selected entries: nan when none is selected
MeanOver(f, S) == IF S = {} THEN NaN ELSE TruncDiv(SumOver(f, S), Cardinality(S))

\* ClinicalAnalytics.analyze_propagation(onset_times, labels), labels[i] = i
analyze_propagation(onsets) ==
    LET recruited_indices == recruited(onsets)
        n_recruited == Cardinality(recruited_indices)
        total_regions == Len(onsets)
    IN IF n_recruited = 0
       THEN [n_recruited |-> 0, recruitment_ratio |-> 0, mean_latency |-> 0,
             primary_ez_region |-> 0]
       ELSE LET ez_idx == CHOOSE i \in recruited_indices :
                              \A j \in recruited_indices :
                                  \/ onsets[i] < onsets[j]
                                  \/ (onsets[i] = onsets[j] /\ i <= j)
                t_start == onsets[ez_idx]
                relative_times == [i \in recruited_indices |-> onsets[i] - t_start]
            IN [n_recruited |-> n_recruited,
                recruitment_ratio |-> TruncDiv(n_recruited * Scale, total_regions),
                mean_latency |->
                    IF n_recruited > 1
                    THEN MeanOver(relative_times,
                                  {i \in recruited_indices : relative_times[i] > 0})
                    ELSE 0,
                primary_ez_region |-> ez_idx]

\* metrics = ClinicalAnalytics.analyze_propagation(onset_times, labels)
TestAnalytics ==
    /\ prog = "test" /\ args.op = "analytics" /\ pc = "ready"
    /\ \E onsets \in OnsetVectors :
         probe' = [kind |-> "metrics", onsets |-> onsets,
                   out |-> analyze_propagation(onsets)]
    /\ pc' = "test_done"
    /\ UNCHANGED << gui, prog, variant, args, velocity, x0_ez, x0_input, sigma, lengths,
                    peer, delays, buffer_size, x0, n_steps, n_saved, t, state, history,
                    onset_times, data, result, kicks, trace, fs, saved_path, load_path,
                    loaded, err, rng >>

Next ==
    \/ ApiRun
    \/ Step
    \/ Return
    \/ ApiSave
    \/ ApiLoad
    \/ ViewerMain
    \/ PipelineLoad
    \/ PipelineRun
    \/ PipelineSave
    \/ PipelineReport
    \/ MainResume
    \/ MainRun
    \/ MainSave
    \/ SessionRerun
    \/ PeerRun
    \/ PeerStep
    \/ PeerReturn
    \/ TestInitialState
    \/ TestStepPair
    \/ TestCoupling
    \/ TestAnalytics
    \/ AppSelectAtlas
    \/ AppSelectCortex
    \/ AppRunSimulation
    \/ AppWorkerRun
    \/ AppWorkerFinished
    \/ AppOnSimulationDone
    \/ AppLaunchViewer

Spec == Init /\ [][Next]_vars

-----------------------------------------------------------------------------
(* Properties *)

\* post-step x1 of region i at loop index k (k = 0 is the first iteration)
PostStepX1(k, i) == trace[k + 2][i]
Running == pc = "loop" /\ t < n_steps

\* C1: at every step t of a run, for every region j and every delay d between
\* 0 and the maximum delay, the slot (t - d) mod bufferSize holds region j's
\* x1 as it was after t - d completed steps, and the initial x1 when
\* t - d <= 0; this also holds after the ring has wrapped.
C1_DelayedReadIsPastValue ==
    Running =>
        \A j \in Regions : \A d \in 0..MaxDelay(delays) :
            history[ReadIdx(t, d, buffer_size) + 1][j]
                = (IF t - d <= 0 THEN trace[1][j] ELSE trace[t - d + 1][j])

\* a run past the end of the ring, reading with a non-zero delay a value
\* that is neither the initial nor the current x1
C1_Witness ==
    /\ Running
    /\ t > buffer_size
    /\ \E i, j \in Regions :
         /\ delays[i][j] > 0
         /\ history[ReadIdx(t, delays[i][j], buffer_size) + 1][j] # trace[1][j]
         /\ history[ReadIdx(t, delays[i][j], buffer_size) + 1][j] # trace[t + 1][j]

\* C2: within a run, once a region's onset time is not the sentinel, no later
\* step changes it.
C2_OnsetMonotone ==
    [][ (pc = "loop" /\ pc' \in {"loop", "done"}) =>
          \A i \in Regions :
              onset_times[i] # Sentinel => onset_times'[i] = onset_times[i] ]_vars

\* a region crossed the threshold, fell back under it and crossed it again,
\* and its onset time is still the one of the first crossing
C2_Witness ==
    /\ pc \in {"loop", "done"}
    /\ \E i \in Regions : \E a, b, c \in 0..(Len(trace) - 2) :
         /\ a < b /\ b < c
         /\ Gt(PostStepX1(a, i), Threshold(variant))
         /\ ~Gt(PostStepX1(b, i), Threshold(variant))
         /\ Gt(PostStepX1(c, i), Threshold(variant))
         /\ onset_times[i] = OnsetStamp(a)

\* the loop indices at which region i's post-step x1 exceeded the threshold
Crossings(i) == { k \in 0..(n_steps - 1) : Gt(PostStepX1(k, i), Threshold(variant)) }

\* C3: when a run has returned, each region's onset time is t * dt for the
\* smallest loop index t at which its post-step x1 exceeded the threshold,
\* and it is the sentinel exactly when x1 never exceeded the threshold.
C3_OnsetIsFirstCrossing ==
    result.returned =>
        \A i \in Regions :
            /\ Crossings(i) # {} => result.onset_times[i] = SetMin(Crossings(i)) * DT
            /\ (result.onset_times[i] = Sentinel) <=> (Crossings(i) = {})

\* a returned run in which one region crossed after the first iteration and
\* another never crossed
C3_Witness ==
    /\ result.returned
    /\ \E i, j \in Regions :
         /\ result.onset_times[i] > 0
         /\ SetMin(Crossings(i)) * DT = result.onset_times[i]
         /\ result.onset_times[j] = Sentinel

\* C4: load_checkpoint(p) after save_checkpoint(p, time, data, onset_times)
\* returns the saved arrays, for every path p.
C4_CheckpointRoundTrip ==
    (prog = "api" /\ saved_path # NoPath /\ load_path = saved_path) =>
        /\ loaded.status = "ok"
        /\ loaded.time = result.time
        /\ loaded.data = result.data
        /\ loaded.onset_times = result.onset_times

NonFinite ==
    \/ \E i \in DOMAIN state : \E k \in 1..6 : state[i][k] = NaN
    \/ (Running /\ \E i \in Regions :
            Coupling(variant, history, delays, t, buffer_size)[i] = NaN)

\* C5: when a non-finite value is in the state or the coupling of a run, the
\* run has been aborted with a failure and has returned no result.
C5_AbortOnNonFinite ==
    NonFinite => (pc = "error" /\ ~result.returned)

ConfigError ==
    \/ velocity <= 0
    \/ args.duration <= 0
    \/ (variant = "core" /\ Len(x0_input.vec) # NRegions)

\* C6: a configuration error (non-positive velocity or duration, excitability
\* vector of length other than N) fails before any integration step runs.
C6_ConfigErrorFailsFast ==
    (args.op = "run" /\ ConfigError) => t = 0

RequiredKeys == {"time", "data", "onset_times"}
BadFile(f) == f.kind # "npz" \/ ~(RequiredKeys \subseteq f.keys)

\* C7: a load from a path whose file is missing, unreadable or lacks one of
\* time, data, onset_times ends in an error; a load that returns arrays
\* returns the arrays of the file.
C7_LoadFailsExplicitly ==
    load_path # NoPath =>
        /\ BadFile(fs[load_path]) =>
              (loaded.status # "ok" /\ pc \in {"error", "exit"} /\ err # "none")
        /\ loaded.status = "ok" =>
              /\ ~BadFile(fs[load_path])
              /\ loaded.time = fs[load_path].time
              /\ loaded.data = fs[load_path].data
              /\ loaded.onset_times = fs[load_path].onset_times

\* load_checkpoint met a container without the data array and raised KeyError
C7_Witness ==
    /\ load_path # NoPath
    /\ prog \in {"api", "pipeline"}
    /\ fs[load_path].kind = "npz"
    /\ "data" \notin fs[load_path].keys
    /\ err = "KeyError"
    /\ pc = "error"

CheckpointAsked ==
    \/ (prog = "pipeline" /\ args.checkpoint # NoPath)
    \/ (prog = "main_pipeline" /\ args.resume)

C9_ExactStepCount ==
    (result.returned /\ args.duration >= 0) => t = args.duration \div DT

\* C10: run with 0 <= duration < dt completes no step and returns time and
\* activity of length zero, with no error.
C10_ShortDurationEmpty ==
    (args.op = "run" /\ 0 <= args.duration /\ args.duration < DT /\ pc # "ready") =>
        /\ n_steps = 0
        /\ t = 0
        /\ err = "none"
        /\ Len(result.time) = 0
        /\ Len(data) = 0

\* C11: the returned time vector is evenly spaced at the output sampling
\* interval: time[k] = k * downsample * dt for every saved index k (counted
\* from 0), the simulation time of the loop step that wrote activity[k].
C11_TimeMatchesSamples ==
    result.returned =>
        \A k \in 1..Len(result.time) :
            result.time[k] = (k - 1) * Downsample(variant) * DT

\* the coupling formula over every pair, none skipped
RECURSIVE FullSum(_, _, _, _, _, _, _)
FullSum(h, w, d, st, B, i, j) ==
    IF j = 0 THEN 0
    ELSE Add(FullSum(h, w, d, st, B, i, j - 1),
             Mul(w[i][j], Sub(h[((st - d[i][j]) % B) + 1][j], h[(st % B) + 1][i])))

FullCoupling(h, w, d, st, B, a) ==
    [i \in Regions |-> Mul(a, FullSum(h, w, d, st, B, i, NRegions))]

\* C12: for non-negative weights, compute_coupling / compute_delay_coupling
\* returns for each region i exactly
\* a * sum_j weights[i][j] * (history[(step - delays[i][j]) mod B][j] - history[step mod B][i]),
\* the skipped pairs of weight <= 0 contributing nothing, and leaves the
\* buffer as it was; both for the kernel called on given buffers and for
\* every step of a run.
C12_CouplingIsFullSum ==
    /\ probe.kind = "coupling" =>
          /\ probe.out = FullCoupling(probe.history, probe.weights, delays, probe.step,
                                      buffer_size, CouplingStrength(variant))
          /\ probe.history_after = probe.history
    /\ Running =>
          Coupling(variant, history, delays, t, buffer_size)
              = FullCoupling(history, Weights, delays, t, buffer_size,
                             CouplingStrength(variant))

\* the kernel was called with a missing edge between two regions whose buffer
\* values differ, at a step smaller than a delay, and returned a non-zero
\* coupling
C12_Witness ==
    /\ probe.kind = "coupling"
    /\ \E i, j \in Regions :
         /\ i # j
         /\ probe.weights[i][j] = 0
         /\ probe.history[ReadIdx(probe.step, delays[i][j], buffer_size) + 1][j]
                # probe.history[(probe.step % buffer_size) + 1][i]
    /\ \E i, j \in Regions :
         /\ probe.step - delays[i][j] < 0
         /\ probe.weights[i][j] > 0
         /\ probe.out[i] # 0

\* the kernel of each simulator applied to the buffer of the current state
KernelOnBuffer ==
    IF variant = "vep"
    THEN compute_coupling(history, Weights, delays, t, buffer_size, CouplingStrength(variant))
    ELSE compute_delay_coupling(history, Weights, delays, t, buffer_size,
                                CouplingStrength(variant))

\* C13: in each loop iteration t the slot t mod bufferSize read as the current
\* value holds the x1 left by the preceding step (the initial x1 at t = 0),
\* the state update uses the coupling computed from the buffer as it stood
\* before the iteration, and the iteration changes the buffer only in slot
\* (t + 1) mod bufferSize, which receives the new x1.
C13_CouplingBeforeWrite ==
    [][ (pc = "loop" /\ t' = t + 1) =>
          /\ history[(t % buffer_size) + 1] = X1Of(state)
          /\ \E noise \in NoiseDraws :
                state' = ModelStep(variant, state, KernelOnBuffer, x0, noise)
          /\ history' = [history EXCEPT ![((t + 1) % buffer_size) + 1] = X1Of(state')]
      ]_vars

\* an iteration after the ring has wrapped: the slot about to be written
\* holds an x1 other than the current one and the coupling is not zero
C13_Witness ==
    /\ Running
    /\ t > buffer_size
    /\ history[(t % buffer_size) + 1] = X1Of(state)
    /\ history[((t + 1) % buffer_size) + 1] # X1Of(state)
    /\ \E i \in Regions : KernelOnBuffer[i] # 0

\* the state is the one initial_state() returned
FromInitialState == pc = "test_state" \/ (pc = "loop" /\ t = 0)

\* C14: initial_state() returns a state of shape [N, 6] in which every
\* region's x1 lies in [-2.0, -1.0] for every draw of the perturbation, y1 is
\* -10.0, z is 3.0, y2 and g are 0.0, and x2 is the same for every region.
C14_InitialStateInRange ==
    FromInitialState =>
        /\ DOMAIN state = Regions
        /\ \A i \in Regions :
              /\ Len(state[i]) = 6
              /\ -(2 * Scale) <= state[i][1] /\ state[i][1] <= -Scale
              /\ state[i][2] = -(10 * Scale)
              /\ state[i][3] = 3 * Scale
              /\ state[i][4] = state[1][4]
              /\ state[i][5] = 0
              /\ state[i][6] = 0

C16_CouplingSensitivity ==
    (probe.kind = "steps" /\ probe.na = probe.nb) =>
        /\ \A i \in Regions :
              /\ probe.b[i][1] - probe.a[i][1]
                    = Ratio(probe.cb[i] - probe.ca[i], DT, TimeScale)
              /\ \A k \in 2..6 : probe.b[i][k] = probe.a[i][k]
        /\ probe.ca # probe.cb => probe.a # probe.b

\* zero coupling against coupling 2.0 with the same non-zero noise draw
C16_Witness ==
    /\ probe.kind = "steps"
    /\ probe.na = probe.nb /\ IsKick(probe.na)
    /\ probe.ca = ZeroVec
    /\ probe.cb = [i \in Regions |-> 2 * Scale]
    /\ probe.a # probe.b

\* default velocity and excitabilities: healthy or epileptogenic, one per region
DefaultParameters ==
    /\ velocity = CONDUCTION_VELOCITY
    /\ x0_ez = X0_EZ_DEFAULT
    /\ \/ x0_input.vec = << >>
       \/ /\ Len(x0_input.vec) = NRegions
          /\ \A i \in Regions : x0_input.vec[i] \in {x0_healthy, X0_EZ_DEFAULT}

\* every channel is a number, and one far from the overflow of the arithmetic
StabilityBound == 20 * Scale
Bounded(st) ==
    \A i \in DOMAIN st : \A k \in 1..6 :
        st[i][k] # NaN /\ Abs(st[i][k]) <= StabilityBound

ZeroLengths == \A i \in Regions : \A j \in Regions : lengths[i][j] = 0

\* the diffusive coupling of a single x1 vector, without any buffer
RECURSIVE InstantSum(_, _, _, _)
InstantSum(x, w, i, j) ==
    IF j = 0 THEN 0
    ELSE Add(InstantSum(x, w, i, j - 1), Mul(w[i][j], Sub(x[j], x[i])))

InstantCoupling(x, w, a) == [i \in Regions |-> Mul(a, InstantSum(x, w, i, NRegions))]

\* C18: when all tract lengths are 0 the delay matrix is all zero, and the
\* coupling of every step is the instantaneous diffusive coupling
\* a * sum_j weights[i][j] * (x1_j - x1_i) of the current x1 alone; the
\* kernel called on a given buffer uses the current slot alone.
C18_ZeroLengthsInstantaneous ==
    ZeroLengths =>
        /\ \A i \in Regions : \A j \in Regions : delays[i][j] = 0
        /\ Running =>
              Coupling(variant, history, delays, t, buffer_size)
                  = InstantCoupling(X1Of(state), Weights, CouplingStrength(variant))
        /\ probe.kind = "coupling" =>
              probe.out = InstantCoupling(probe.history[(probe.step % buffer_size) + 1],
                                          probe.weights, CouplingStrength(variant))

\* a run with zero tract lengths, past the end of the ring, whose x1 changed
\* in the last step and whose coupling is not zero
C18_Witness ==
    /\ ZeroLengths
    /\ Running
    /\ t > buffer_size
    /\ trace[t] # X1Of(state)
    /\ \E i \in Regions : Coupling(variant, history, delays, t, buffer_size)[i] # 0

\* the spiking threshold -1.2
SpikingThreshold == -((6 * Scale) \div 5)

\* C19: in every simulator, a region whose post-step x1 exceeded -1.2 at some
\* step of a default-parameter run has an onset time other than the sentinel
\* when the run returns.
C19_OnsetAtSpikingThreshold ==
    (result.returned /\ DefaultParameters) =>
        \A i \in Regions :
            (\E k \in 0..(n_steps - 1) : Gt(PostStepX1(k, i), SpikingThreshold))
                => result.onset_times[i] # Sentinel

\* C20: the random draws a simulator's run consumes are not affected by
\* another instance: its n-th call on the generator reads the n-th block of
\* the stream, whatever the other instance has run in between.
C20_OwnRandomStream ==
    rng.own > 0 => rng.last = rng.own - 1

\* C21: x0 changes only when a run (or the pipeline's load branch) applies
\* the setter before any loop iteration; no loop iteration changes x0; and
\* the vep setter rewrites the entries at the given indices only, leaving
\* every other entry as it was.
C21_X0SetOnlyBeforeLoop ==
    [][ /\ pc = "loop" => x0' = x0
        /\ x0' # x0 =>
              /\ pc \in {"ready", "done"}
              /\ t' = 0
              /\ variant = "vep" =>
                    \A i \in Regions :
                        x0'[i] = IF i \in x0_input'.ez THEN x0_ez ELSE x0[i]
      ]_vars

\* a second run with other zones is in its loop: the setter has rewritten
\* one entry of a vector that already held an epileptogenic one
C21_Witness ==
    /\ prog = "session" /\ args.op = "rerun"
    /\ pc = "loop" /\ t > 0
    /\ x0_input.ez = {NRegions}
    /\ x0[NRegions] = x0_ez

Pipelines == {"pipeline", "main_pipeline"}

FloorDiv(a, b) == IF b > 0 THEN a \div b ELSE (-a) \div (-b)

RingSized ==
    /\ Margin >= 1
    /\ buffer_size = MaxDelay(delays) + Margin
    /\ \A i, j \in Regions :
         /\ delays[i][j] >= 0
         /\ delays[i][j] = FloorDiv(lengths[i][j], velocity * DT)
         /\ delays[i][j] < buffer_size

RingInRange ==
    Running =>
        /\ Len(history) = buffer_size
        /\ WriteIdx(t, buffer_size) \in 0..(buffer_size - 1)
        /\ \A i, j \in Regions :
             /\ ReadIdx(t, delays[i][j], buffer_size) \in 0..(buffer_size - 1)
             /\ ReadIdx(t, delays[i][j], buffer_size) # WriteIdx(t, buffer_size)

\* C23: the ring has max delay + margin rows with margin >= 1; every delay
\* is a non-negative integer, floor(length / (velocity * dt)), below the
\* number of rows; the ring keeps its shape; every read and write index is
\* within the ring; and the row a step writes is none of the rows it reads.
C23_RingBufferSizing == RingSized /\ RingInRange

\* the row that loop step st of the run has produced
SampleOf(st) == [i \in Regions |-> F32(trace[st + 2][i])]

\* C24: the saved activity has exactly floor(steps / stride) rows; row k
\* holds the (reduced precision) x1 of loop step k * stride from that step
\* on and its initial zeros before it, so it is written once and never
\* again; no further row exists; and when the loop ends no row is left at
\* its initial zeros for want of a write.
C24_DownsampledRows ==
    LET ds == Downsample(variant)
    IN /\ pc = "loop" =>
            /\ n_saved = n_steps \div ds
            /\ DOMAIN data = 1..n_saved
            /\ \A k \in 1..n_saved :
                 data[k] = IF (k - 1) * ds < t THEN SampleOf((k - 1) * ds) ELSE ZeroVec
            /\ t >= n_steps => \A k \in 1..n_saved : (k - 1) * ds < t
       /\ result.returned =>
            /\ DOMAIN result.data = 1..(n_steps \div ds)
            /\ \A k \in 1..(n_steps \div ds) : result.data[k] = SampleOf((k - 1) * ds)

\* a returned run of two rows whose step count is no multiple of the stride:
\* the step after the last row would have indexed a third row
C24_Witness ==
    /\ result.returned
    /\ Len(result.data) = 2
    /\ n_steps % Downsample(variant) # 0
    /\ n_steps > 2 * Downsample(variant)
    /\ result.data[1] # result.data[2]

\* state + deriv * dt of one step of the probe, before any noise
ProbeDrift(c) ==
    Euler(state, IF variant = "vep" THEN epileptor_dfun(state, c, x0)
                 ELSE dfun(state, c, x0))

NoiseFree == {2, 3, 5, 6}

\* C25: a step adds its noise to x1 and to x2 only, each from its own draw;
\* y1, z, y2 and g of the next state are previous value + derivative * dt
\* whatever the noise drawn.
C25_NoiseOnFastChannelsOnly ==
    probe.kind = "steps" =>
        \A i \in Regions :
            /\ \A k \in NoiseFree : probe.a[i][k] = ProbeDrift(probe.ca)[i][k]
            /\ \A k \in NoiseFree : probe.b[i][k] = ProbeDrift(probe.cb)[i][k]
            /\ probe.a[i][1] = Add(ProbeDrift(probe.ca)[i][1], probe.na.n1[i])
            /\ probe.a[i][4] = Add(ProbeDrift(probe.ca)[i][4], probe.na.n2[i])

\* two steps from one state and one coupling, one with a draw that moves x1
\* alone and one with a draw that moves x2 alone
C25_Witness ==
    /\ probe.kind = "steps" /\ probe.ca = probe.cb
    /\ probe.na.n1 # ZeroVec /\ probe.na.n2 = ZeroVec
    /\ probe.nb.n1 = ZeroVec /\ probe.nb.n2 # ZeroVec
    /\ \E i \in Regions : probe.a[i][1] # probe.b[i][1]
    /\ \E i \in Regions : probe.a[i][4] # probe.b[i][4]
    /\ \A i \in Regions : \A k \in NoiseFree : probe.a[i][k] = probe.b[i][k]

\* C26: in the result of a run with default parameters, the regions counted
\* as recruited are exactly the regions with a recorded onset, the ones
\* recorded at loop step 0 included.
C26_RecordedOnsetsAreRecruited ==
    (result.returned /\ DefaultParameters) =>
        recruited(result.onset_times)
            = {i \in Regions : result.onset_times[i] # Sentinel}

\* C27: during and after every run of a vep Simulator with default
\* parameters, the regions whose x0 is the epileptogenic value are exactly
\* the ez_indices of that call and every other region has the healthy value,
\* also when the instance has run before with other zones.
C27_ZonesOfThisRunOnly ==
    (variant = "vep" /\ DefaultParameters /\ pc \in {"loop", "done"}) =>
        \A i \in Regions :
            x0[i] = IF i \in x0_input.ez THEN x0_ez ELSE x0_healthy

\* C28: after a step the array the caller passed in still holds the
\* pre-step state, for both step functions.
C28_StepLeavesArgument ==
    probe.kind = "steps" => (probe.arg_a = state /\ probe.arg_b = state)

\* C30: for every onset-time vector the metrics have n_recruited = the
\* number of entries > 0, recruitment_ratio = n_recruited / N within [0, 1],
\* primary_ez_region a recruited region of minimum onset time, and a
\* mean_latency that is a number >= 0, also when all recruited regions share
\* one onset time.
C30_MetricsDefined ==
    probe.kind = "metrics" =>
        LET on == probe.onsets
            m == probe.out
            rec == {i \in Regions : on[i] > 0}
        IN /\ m.n_recruited = Cardinality(rec)
           /\ m.recruitment_ratio = (m.n_recruited * Scale) \div NRegions
           /\ m.recruitment_ratio \in 0..Scale
           /\ rec # {} => /\ m.primary_ez_region \in rec
                           /\ \A j \in rec : on[m.primary_ez_region] <= on[j]
           /\ m.mean_latency # NaN
           /\ m.mean_latency >= 0

\* C29: at most one simulation worker runs at any time, and the atlas and
\* cortex written into the checkpoint handed to the viewer are those of the
\* simulation that produced the time, data and onset_times stored with them.
C29_CheckpointMatchesRun ==
    gui.kind = "window" =>
        /\ gui.active <= 1
        /\ gui.checkpoint.written =>
              /\ gui.checkpoint.atlas = gui.checkpoint.ran_atlas
              /\ gui.checkpoint.cortex = gui.checkpoint.ran_cortex

====
